---- MODULE Spec2Model ----
(***************************************************************************)
(* Model of Firmware/src/modules/tools/zprobe/ZProbe.cpp (SmoothieV2).     *)
(*                                                                         *)
(* Two domains share the probe session (probing, probe_detected,           *)
(* debounce): the 100 Hz SlowTicker callback read_probe, taken here as one *)
(* atomic step, and the command thread, which runs handle_gcode and the    *)
(* probing functions it calls.  The command thread is a program counter pc *)
(* with one action per stretch of code between two points where the        *)
(* sampler or the motion subsystem can be seen to interleave.              *)
(*                                                                         *)
(* Robot, Conveyor and StepperMotor are not part of ZProbe.cpp; they are   *)
(* modelled from their contracts for a cartesian machine with one block in *)
(* the queue: a block is a signed number of steps for one axis, executed   *)
(* one step at a time, and stop_moving() ends it where it is.              *)
(* Feedrates do not change any state of the model and are left out.        *)
(***************************************************************************)
EXTENDS Integers, FiniteSets, Sequences, TLC

\* ---------------------------------------------------------------- bounds
\* largest debounce threshold (debounce_ms) configured
MaxDebounce == 1
\* Z positions the planner may be sent to: 0..MaxPos
MaxPos == 2
\* X and Y positions the planner may be sent to: 0..MaxXY
MaxXY == 1
\* magnitude of the G38 X/Y/Z argument
MaxProbeDist == 1

\* ------------------------------------------------------------- constants
Axes == {"X", "Y", "Z"}
\* Robot::actuators: the three primary axes and one further actuator
Actuators == Axes \cup {"E"}
\* config default of reverse_z
reverse_z == FALSE

VARIABLES
    pc,                   \* position of the command thread
    cmd,                  \* the gcode being handled
    probing,              \* session armed
    probe_detected,       \* session detected
    debounce,             \* session debounce count
    debounce_ms,          \* configured threshold, in ticks
    max_z,                \* configured maximum probe distance
    pin,                  \* what pin.get() returns now
    inverting,            \* Pin::is_inverting() of the probe pin
    invert_override,      \* the value of the last M670 I parameter
    m670,                 \* observer of the last two M670 commands
    machine_pos,          \* Robot: planner's machine position per axis
    actuator_pos,         \* StepperMotor: physical position per axis
    moving,               \* StepperMotor::is_moving() per actuator
    block,                \* Conveyor: the queued block, or NoBlock
    disable_segmentation, \* Robot::disable_segmentation
    absolute_mode,        \* Robot::absolute_mode
    state_stack,          \* Robot: the modes saved by push_state
    last_probe,           \* Robot::set_last_probe_position record
    loc,                  \* locals of run_probe / run_probe_return / handler
    out,                  \* what the command being handled has done so far
    hist                  \* observers of the session since it was last armed

vars == <<pc, cmd, probing, probe_detected, debounce, debounce_ms, max_z, pin,
          inverting, invert_override, m670,
          machine_pos, actuator_pos, moving, block, disable_segmentation,
          absolute_mode, state_stack, last_probe, loc, out, hist>>

sessionVars == <<probing, probe_detected, debounce>>
configVars == <<debounce_ms, max_z, inverting, invert_override, m670>>
motionVars == <<machine_pos, actuator_pos, moving, block>>
modeVars == <<absolute_mode, state_stack>>

NoBlock == [axis |-> "none", remaining |-> 0, started |-> FALSE, src |-> "none"]
\* max_dist: the max_dist argument of run_probe, -1 when the caller leaves it
\* to the configured max_z
NoCmd == [code |-> 0, sub |-> 0, axis |-> "none", dist |-> 0,
          set_z |-> FALSE, reverse |-> FALSE, max_dist |-> -1]
NoOut == [response |-> "none", probeok |-> 0, alarm |-> FALSE, strategy |-> FALSE,
          reconciles |-> 0, moves |-> 0, armed |-> FALSE]
\* mm_written: the `float mm` of the caller has been assigned (it is declared
\* without a value, and read by the caller only after run_probe returned true)
\* mode0: observer, Robot::absolute_mode when the handler was entered
NoLoc == [mm |-> 0, mm_written |-> FALSE, z_start_pos |-> 0, save_z_pos |-> 0,
          ret |-> FALSE, caller |-> "none", mode0 |-> TRUE]
NoHist == [stopped |-> {}, stops |-> 0, detects |-> 0, run |-> 0]
\* last: the previous M670 had a non-zero I; pair: so had the one before it;
\* before1 / before2: the polarity before the previous M670 / the one before
NoM670 == [last |-> FALSE, pair |-> FALSE, before1 |-> FALSE, before2 |-> FALSE]

Sign(n) == IF n > 0 THEN 1 ELSE IF n < 0 THEN -1 ELSE 0
Min(a, b) == IF a < b THEN a ELSE b

\* G38 arguments
ProbeDists == {-MaxProbeDist, MaxProbeDist}

\* the gcodes dispatched to ZProbe::handle_gcode.  G29, G31 and G32 go to a
\* strategy: the one handling G32 probes once with run_probe and an explicit
\* maximum distance, the one handling G29 probes once with doProbeAt at
\* (dist, current Y) (a G32 without distance and a G29 without axis stand
\* for a strategy that does not probe).
Commands ==
    {[NoCmd EXCEPT !.code = c] : c \in {29, 31, 32}}
    \cup {[NoCmd EXCEPT !.code = 32, !.max_dist = d] : d \in {0, MaxProbeDist}}
    \cup {[NoCmd EXCEPT !.code = 29, !.axis = "X", !.dist = x] : x \in {0, MaxXY}}
    \cup {[NoCmd EXCEPT !.code = 30, !.set_z = s, !.reverse = r] :
            s \in BOOLEAN, r \in BOOLEAN}
    \cup {[NoCmd EXCEPT !.code = 38, !.sub = s, !.axis = a, !.dist = d] :
            s \in {2, 3}, a \in Axes, d \in ProbeDists}
    \cup {[NoCmd EXCEPT !.code = 38, !.sub = 2], [NoCmd EXCEPT !.code = 38, !.sub = 4]}

\* Conveyor::wait_for_idle returns
ConveyorIdle == block.axis = "none"

\* mutant: the sampler does not look at the steppers
AnyAxisMoving_ignored == TRUE

\* `STEPPER[X_AXIS]->is_moving() || ... || STEPPER[Z_AXIS]->is_moving()`
AnyAxisMoving == moving["X"] \/ moving["Y"] \/ moving["Z"]

\* ------------------------------------------------------------------ Init
\* The constructor writes probing and invert_override only: debounce and
\* probe_detected start with whatever the allocation held.
InitProbe ==
    /\ pc = "idle"
    /\ cmd = NoCmd
    /\ probing = FALSE
    /\ probe_detected \in BOOLEAN
    /\ debounce \in 0..(MaxDebounce + 1)
    /\ debounce_ms \in 0..MaxDebounce
    /\ max_z = 1
    /\ pin \in BOOLEAN
    /\ inverting = FALSE
    /\ invert_override = FALSE
    /\ m670 = NoM670
    /\ machine_pos = [a \in Axes |-> 0]
    /\ actuator_pos = [a \in Axes |-> 0]
    /\ moving = [a \in Actuators |-> FALSE]
    /\ block = NoBlock
    /\ disable_segmentation = FALSE
    /\ last_probe = <<0, 0, 0, 0>>
    /\ loc = NoLoc
    /\ out = NoOut
    /\ hist = NoHist

\* The machine starts in absolute mode (G90) with no motion state saved.
Init ==
    /\ InitProbe
    /\ absolute_mode = TRUE
    /\ state_stack = <<>>

\* ------------------------------------------------- motion (Robot/Conveyor)
\* Robot::push_state
PushState(stack, mode) == Append(stack, mode)

\* Robot::pop_state: the mode it restores, and the stack it leaves
PopMode(stack, mode) == IF stack = <<>> THEN mode ELSE stack[Len(stack)]
PopStack(stack) == IF stack = <<>> THEN stack ELSE SubSeq(stack, 1, Len(stack) - 1)

\* the steps of a G0 with argument arg on axis a, in absolute (mode = TRUE)
\* or relative mode, in machine coordinates
G0Steps(a, arg, mode) == IF mode THEN arg - machine_pos[a] ELSE arg

\* Robot appends one block for a move of n steps on axis a (nothing for an
\* empty move) and the planner's position becomes the move's target.
Enqueue(a, n, src) ==
    /\ block' = IF n = 0 THEN block
                ELSE [axis |-> a, remaining |-> n, started |-> FALSE, src |-> src]
    /\ machine_pos' = [machine_pos EXCEPT ![a] = machine_pos[a] + n]
    /\ UNCHANGED <<actuator_pos, moving>>

\* Robot::reset_position_from_current_actuator_position (cartesian)
ResetPosition == [a \in Axes |-> actuator_pos[a]]

\* the stepper of the queued block starts stepping
MotionStart ==
    /\ ~ConveyorIdle
    /\ ~block.started
    /\ block' = [block EXCEPT !.started = TRUE]
    /\ moving' = [moving EXCEPT ![block.axis] = TRUE]
    /\ UNCHANGED <<modeVars, pc, cmd, sessionVars, configVars, pin, machine_pos, actuator_pos,
                   disable_segmentation, last_probe, loc, out, hist>>

\* one step of the moving stepper; it stops by itself on the last step
MotionStep ==
    /\ ~ConveyorIdle
    /\ block.started
    /\ moving[block.axis]
    /\ actuator_pos' = [actuator_pos EXCEPT
                          ![block.axis] = actuator_pos[block.axis] + Sign(block.remaining)]
    /\ block' = [block EXCEPT !.remaining = block.remaining - Sign(block.remaining)]
    /\ moving' = [moving EXCEPT
                    ![block.axis] = (block.remaining - Sign(block.remaining) # 0)]
    /\ UNCHANGED <<modeVars, pc, cmd, sessionVars, configVars, pin, machine_pos,
                   disable_segmentation, last_probe, loc, out, hist>>

\* the block ends once its stepper no longer moves (finished or stopped)
MotionDone ==
    /\ ~ConveyorIdle
    /\ block.started
    /\ ~moving[block.axis]
    /\ block' = NoBlock
    /\ UNCHANGED <<modeVars, pc, cmd, sessionVars, configVars, pin, machine_pos, actuator_pos,
                   moving, disable_segmentation, last_probe, loc, out, hist>>

\* --------------------------------------------------------------- sensor
\* the sensor input changes at any time
PinChange ==
    /\ pin' = ~pin
    /\ UNCHANGED <<modeVars, pc, cmd, sessionVars, configVars, motionVars,
                   disable_segmentation, last_probe, loc, out, hist>>

\* -------------------------------------------------- sampler (read_probe)
\* mutant: one more active sample is counted before the else branch
DebounceElapsed_late(d, t) == d > t

\* the else branch of `if(debounce < debounce_ms)`
DebounceElapsed(d, t) == ~(d < t)

\* mutant: only the three primary axes are stopped
StopTargets_XYZ == Axes

\* `for(auto &a : Robot::getInstance()->actuators) a->stop_moving()`
StopTargets == Actuators

\* mutant: the sampler has no guard at all
SamplerActs_always == TRUE

\* mutant: the sampler does not look at probing
SamplerActs_unarmed == ~probe_detected

\* the negation of `if(!probing || probe_detected) return;`
SamplerActs == probing /\ ~probe_detected

\* upper limit of the observer hist.run
RunCap == MaxDebounce + 3

read_probe ==
    /\ IF ~SamplerActs \/ ~AnyAxisMoving
         THEN UNCHANGED <<probe_detected, debounce, moving, hist>>
       ELSE IF pin
         THEN IF ~DebounceElapsed(debounce, debounce_ms)
                THEN /\ debounce' = debounce + 1
                     /\ hist' = [hist EXCEPT !.run = Min(hist.run + 1, RunCap)]
                     /\ UNCHANGED <<probe_detected, moving>>
                ELSE /\ moving' = [a \in Actuators |->
                                     IF a \in StopTargets THEN FALSE ELSE moving[a]]
                     /\ probe_detected' = TRUE
                     /\ debounce' = 0
                     /\ hist' = [stopped |-> hist.stopped \cup StopTargets,
                                 stops |-> Min(hist.stops + 1, 2),
                                 detects |-> Min(hist.detects + 1, 2),
                                 run |-> Min(hist.run + 1, RunCap)]
       ELSE /\ debounce' = 0
            /\ hist' = [hist EXCEPT !.run = 0]
            /\ UNCHANGED <<probe_detected, moving>>
    /\ UNCHANGED <<modeVars, pc, cmd, probing, configVars, pin, machine_pos, actuator_pos, block,
                   disable_segmentation, last_probe, loc, out>>

\* ----------------------------------------- move_x, move_y, move_z, move_xy
\* `Robot::getInstance()->absolute_mode = !relative`
ForcedMode(relative) == ~relative

\* mutant: move_z returns without pop_state
MovePops_forgotten(helper) == helper # "move_z"

\* the helper calls pop_state before it returns
MovePops(helper) == TRUE

\* a helper up to the dispatch of its G0: push_state, absolute_mode, dispatch
MoveHelperStart(a, arg, relative, src) ==
    /\ state_stack' = PushState(state_stack, absolute_mode)
    /\ absolute_mode' = ForcedMode(relative)
    /\ Enqueue(a, G0Steps(a, arg, ForcedMode(relative)), src)

\* the end of a helper: pop_state
MoveHelperEnd(helper) ==
    IF MovePops(helper)
      THEN /\ absolute_mode' = PopMode(state_stack, absolute_mode)
           /\ state_stack' = PopStack(state_stack)
      ELSE UNCHANGED modeVars

\* move_x, which does not wait between the dispatch and pop_state
MoveX(arg, relative, src) ==
    LET st == PushState(state_stack, absolute_mode)
        forced == ForcedMode(relative)
    IN  /\ Enqueue("X", G0Steps("X", arg, forced), src)
        /\ absolute_mode' = IF MovePops("move_x") THEN PopMode(st, forced) ELSE forced
        /\ state_stack' = IF MovePops("move_x") THEN PopStack(st) ELSE st

\* ------------------------------------------- command thread: handle_gcode
\* mutant: run_probe always travels the configured distance
RunProbeDelta_configured(reverse, max_dist) ==
    IF ((~reverse_z) # reverse) THEN -(max_z * 2) ELSE max_z * 2

\* run_probe: `maxz`, `dir` and `delta[Z_AXIS]`
RunProbeDelta(reverse, max_dist) ==
    LET maxz == IF max_dist < 0 THEN max_z * 2 ELSE max_dist
        dir == ((~reverse_z) # reverse)
    IN  IF dir THEN -maxz ELSE maxz

\* the planner target of command c stays within the modelled positions
InRange(c) ==
    LET t == IF c.code = 30 \/ c.max_dist >= 0 \/ (c.code = 29 /\ c.axis # "none")
               THEN machine_pos["Z"] + RunProbeDelta(c.reverse, c.max_dist)
             ELSE IF c.code = 38 /\ c.axis \in Axes THEN machine_pos[c.axis] + c.dist
             ELSE 0
    IN  t \in 0..(IF c.code = 38 /\ c.axis \in {"X", "Y"} THEN MaxXY ELSE MaxPos)

\* mutant: the handler does not look at the pin
TriggeredBeforeMove_never == FALSE

\* `if(this->pin.get())` of the G29..G32 branch and of the G38 branch
TriggeredBeforeMove == pin

\* The dispatcher calls handle_gcode with the next gcode.  handle_gcode up
\* to its first wait: the "triggered before move" guard of the G29..G32
\* branch, the subcode check and the guard of the G38 branch; G29, G31 and
\* G32 are handed to a leveling or calibration strategy, whose code is not
\* part of ZProbe.cpp.
handle_gcode_entry ==
    /\ pc = "idle"
    /\ \E c \in Commands :
         /\ InRange(c)
         /\ cmd' = c
         /\ IF c.code \in 29..32
              THEN IF TriggeredBeforeMove
                     THEN /\ out' = [out EXCEPT !.response = "abort"]
                          /\ pc' = "done"
                     ELSE IF c.code = 30
                            THEN /\ pc' = "g30_wait"
                                 /\ UNCHANGED out
                            ELSE /\ out' = [out EXCEPT !.strategy = TRUE]
                                 /\ pc' = IF c.max_dist >= 0 \/ c.axis # "none"
                                            THEN "strategy" ELSE "done"
              ELSE IF c.sub # 2 /\ c.sub # 3
                     THEN /\ out' = [out EXCEPT !.response = "unsupported"]
                          /\ pc' = "done"
                     ELSE IF TriggeredBeforeMove
                            THEN /\ out' = [out EXCEPT !.response = "abort"]
                                 /\ pc' = "done"
                            ELSE /\ pc' = "g38_wait"
                                 /\ UNCHANGED out
    /\ loc' = [loc EXCEPT !.mode0 = absolute_mode]
    /\ UNCHANGED <<modeVars, sessionVars, configVars, pin, motionVars, disable_segmentation,
                   last_probe, hist>>

\* G30: wait_for_idle, the declaration of `float mm`, then the call of
\* run_probe (Z given) or run_probe_return, which first saves the Z position
handle_gcode_G30 ==
    /\ pc = "g30_wait"
    /\ ConveyorIdle
    /\ loc' = [loc EXCEPT !.mm_written = FALSE,
                          !.caller = IF cmd.set_z THEN "G30" ELSE "run_probe_return",
                          !.save_z_pos = IF cmd.set_z THEN 0 ELSE machine_pos["Z"]]
    /\ pc' = "run_probe"
    /\ UNCHANGED <<modeVars, cmd, sessionVars, configVars, pin, motionVars, disable_segmentation,
                   last_probe, out, hist>>

\* the strategy handling G32 waits for the queue to empty and calls
\* run_probe(mm, rate, max_dist, reverse)
strategy_run_probe ==
    /\ pc = "strategy"
    /\ cmd.code = 32
    /\ ConveyorIdle
    /\ loc' = [loc EXCEPT !.mm_written = FALSE, !.caller = "strategy"]
    /\ pc' = "run_probe"
    /\ UNCHANGED <<modeVars, cmd, sessionVars, configVars, pin, motionVars, disable_segmentation,
                   last_probe, out, hist>>

\* the strategy handling G29 waits for the queue to empty and calls
\* doProbeAt(mm, x, y); doProbeAt calls move_xy(x, y, fast feedrate), an
\* absolute move, taken up to its wait_for_idle
strategy_doProbeAt ==
    /\ pc = "strategy"
    /\ cmd.code = 29
    /\ ConveyorIdle
    /\ MoveHelperStart("X", cmd.dist, FALSE, "move_xy")
    /\ out' = [out EXCEPT !.moves = Min(out.moves + 1, 3)]
    /\ pc' = "move_xy_wait"
    /\ UNCHANGED <<cmd, sessionVars, configVars, pin, disable_segmentation,
                   last_probe, loc, hist>>

\* move_xy's wait_for_idle returns and it pops the state; doProbeAt calls
\* run_probe_return(mm, slow_feedrate), which first saves the Z position
doProbeAt_run_probe_return ==
    /\ pc = "move_xy_wait"
    /\ ConveyorIdle
    /\ MoveHelperEnd("move_xy")
    /\ loc' = [loc EXCEPT !.mm_written = FALSE, !.caller = "run_probe_return",
                          !.save_z_pos = machine_pos["Z"]]
    /\ pc' = "run_probe"
    /\ UNCHANGED <<cmd, sessionVars, configVars, pin, motionVars, disable_segmentation,
                   last_probe, out, hist>>

\* G30: the report after the probe
handle_gcode_G30_report ==
    /\ pc = "g30_report"
    /\ out' = [out EXCEPT !.response = IF loc.ret THEN "Z" ELSE "not triggered"]
    /\ pc' = "done"
    /\ UNCHANGED <<modeVars, cmd, sessionVars, configVars, pin, motionVars, disable_segmentation,
                   last_probe, loc, hist>>

\* G38.2/G38.3: wait_for_idle, then probe_XYZ on the first axis given
handle_gcode_G38 ==
    /\ pc = "g38_wait"
    /\ ConveyorIdle
    /\ IF cmd.axis \in Axes
         THEN /\ pc' = "probe_XYZ"
              /\ UNCHANGED out
         ELSE /\ out' = [out EXCEPT !.response = "no axis"]
              /\ pc' = "done"
    /\ UNCHANGED <<modeVars, cmd, sessionVars, configVars, pin, motionVars, disable_segmentation,
                   last_probe, loc, hist>>

\* handle_gcode returns to the dispatcher; its locals go out of scope
handle_gcode_return ==
    /\ pc = "done"
    /\ pc' = "idle"
    /\ cmd' = NoCmd
    /\ out' = NoOut
    /\ loc' = NoLoc
    /\ UNCHANGED <<modeVars, sessionVars, configVars, pin, motionVars, disable_segmentation,
                   last_probe, hist>>

\* ------------------------------------------------------------- run_probe
\* where run_probe returns to
ReturnTo ==
    IF loc.caller = "G30" THEN "g30_report"
    ELSE IF loc.caller = "strategy" THEN "done"
    ELSE "run_probe_return"

\* mutant: run_probe does not look at the pin before arming
AlreadyTriggered_never == FALSE

\* `if(this->pin.get())` at the top of run_probe
AlreadyTriggered == pin

\* `if(this->pin.get()) return false;`, else `probing = true`
run_probe_entry ==
    /\ pc = "run_probe"
    /\ IF AlreadyTriggered
         THEN /\ loc' = [loc EXCEPT !.ret = FALSE]
              /\ pc' = ReturnTo
              /\ UNCHANGED <<probing, out, hist>>
         ELSE /\ probing' = TRUE
              /\ out' = [out EXCEPT !.armed = TRUE]
              /\ hist' = NoHist
              /\ pc' = "run_probe_arm2"
              /\ UNCHANGED loc
    /\ UNCHANGED <<modeVars, cmd, probe_detected, debounce, configVars, pin, motionVars,
                   disable_segmentation, last_probe>>

\* `probe_detected = false`
run_probe_arm2 ==
    /\ pc = "run_probe_arm2"
    /\ probe_detected' = FALSE
    /\ pc' = "run_probe_arm3"
    /\ UNCHANGED <<modeVars, cmd, probing, debounce, configVars, pin, motionVars,
                   disable_segmentation, last_probe, loc, out, hist>>

\* `debounce = 0`
run_probe_arm3 ==
    /\ pc = "run_probe_arm3"
    /\ debounce' = 0
    /\ pc' = "run_probe_move"
    /\ UNCHANGED <<modeVars, cmd, probing, probe_detected, configVars, pin, motionVars,
                   disable_segmentation, last_probe, loc, out, hist>>

\* z_start_pos, the dwell, and delta_move of the Z axis
run_probe_move ==
    /\ pc = "run_probe_move"
    /\ loc' = [loc EXCEPT !.z_start_pos = actuator_pos["Z"]]
    /\ Enqueue("Z", RunProbeDelta(cmd.reverse, cmd.max_dist), "run_probe")
    /\ out' = [out EXCEPT !.moves = Min(out.moves + 1, 3)]
    /\ pc' = "run_probe_wait"
    /\ UNCHANGED <<modeVars, cmd, sessionVars, configVars, pin, disable_segmentation,
                   last_probe, hist>>

\* wait_for_idle returns; mm and the last probe position are recorded
run_probe_wait ==
    /\ pc = "run_probe_wait"
    /\ ConveyorIdle
    /\ LET mm == loc.z_start_pos - actuator_pos["Z"]
       IN  /\ loc' = [loc EXCEPT !.mm = mm, !.mm_written = TRUE]
           /\ last_probe' = <<0, 0, mm, IF probe_detected THEN 1 ELSE 0>>
    /\ pc' = "run_probe_disarm"
    /\ UNCHANGED <<modeVars, cmd, sessionVars, configVars, pin, motionVars,
                   disable_segmentation, out, hist>>

\* mutant: run_probe forgets to disarm
Disarmed_forgotten == probing

\* the value `probing = false` leaves in probing
Disarmed == FALSE

\* `probing = false`
run_probe_disarm ==
    /\ pc = "run_probe_disarm"
    /\ probing' = Disarmed
    /\ pc' = "run_probe_reset"
    /\ UNCHANGED <<modeVars, cmd, probe_detected, debounce, configVars, pin, motionVars,
                   disable_segmentation, last_probe, loc, out, hist>>

\* mutant: run_probe reconciles whether or not contact was confirmed
RunProbeResets_always == TRUE

\* `if(probe_detected)` in front of the reset_position... call of run_probe
RunProbeResets == probe_detected

\* `if(probe_detected) reset_position_from_current_actuator_position()` and
\* `return probe_detected`
run_probe_reset ==
    /\ pc = "run_probe_reset"
    /\ IF RunProbeResets
         THEN /\ machine_pos' = ResetPosition
              /\ out' = [out EXCEPT !.reconciles = Min(out.reconciles + 1, 3)]
         ELSE UNCHANGED <<machine_pos, out>>
    /\ loc' = [loc EXCEPT !.ret = probe_detected]
    /\ pc' = ReturnTo
    /\ UNCHANGED <<modeVars, cmd, sessionVars, configVars, pin, actuator_pos, moving, block,
                   disable_segmentation, last_probe, hist>>

\* ------------------------------------------------------ run_probe_return
\* mutant: the return move is issued as a relative move
ReturnSteps_relative(save_z_pos) == save_z_pos

\* steps of the absolute move_z back to the saved position
ReturnSteps(save_z_pos) == save_z_pos - machine_pos["Z"]

\* the return feedrate and move_z(save_z_pos, fr, false) up to its dispatch
run_probe_return_move ==
    /\ pc = "run_probe_return"
    /\ state_stack' = PushState(state_stack, absolute_mode)
    /\ absolute_mode' = ForcedMode(FALSE)
    /\ Enqueue("Z", ReturnSteps(loc.save_z_pos), "return")
    /\ out' = [out EXCEPT !.moves = Min(out.moves + 1, 3)]
    /\ pc' = "run_probe_return_wait"
    /\ UNCHANGED <<cmd, sessionVars, configVars, pin, disable_segmentation,
                   last_probe, loc, hist>>

\* move_z's wait_for_idle returns and it pops the state; `return ok`, to
\* the G30 branch or to doProbeAt and the strategy
run_probe_return_wait ==
    /\ pc = "run_probe_return_wait"
    /\ ConveyorIdle
    /\ MoveHelperEnd("move_z")
    /\ pc' = IF cmd.code = 30 THEN "g30_report" ELSE "done"
    /\ UNCHANGED <<cmd, sessionVars, configVars, pin, motionVars,
                   disable_segmentation, last_probe, loc, out, hist>>

\* ------------------------------------------------------------- probe_XYZ
\* whether move_x / move_y / move_z calls wait_for_idle after its dispatch
MoveWaits(axis) == axis # "X"

\* mutant: the alarm ignores the subcode
ProbeFail_anysub(probeok, sub) == probeok = 0

\* `if(probeok == 0 && gcode.get_subcode() == 2)`
ProbeFail(probeok, sub) == probeok = 0 /\ sub = 2

\* `probing = true`
probe_XYZ_entry ==
    /\ pc = "probe_XYZ"
    /\ probing' = TRUE
    /\ out' = [out EXCEPT !.armed = TRUE]
    /\ hist' = NoHist
    /\ pc' = "probe_XYZ_arm2"
    /\ UNCHANGED <<modeVars, cmd, probe_detected, debounce, configVars, pin, motionVars,
                   disable_segmentation, last_probe, loc>>

\* `probe_detected = false` and `disable_segmentation = true`
probe_XYZ_arm2 ==
    /\ pc = "probe_XYZ_arm2"
    /\ probe_detected' = FALSE
    /\ disable_segmentation' = TRUE
    /\ pc' = "probe_XYZ_move"
    /\ UNCHANGED <<modeVars, cmd, probing, debounce, configVars, pin, motionVars,
                   last_probe, loc, out, hist>>

\* move_x / move_y / move_z(arg, rate, true) up to the dispatch of the
\* relative G0; move_x returns at once, move_y and move_z go on to wait
probe_XYZ_move ==
    /\ pc = "probe_XYZ_move"
    /\ IF MoveWaits(cmd.axis)
         THEN MoveHelperStart(cmd.axis, cmd.dist, TRUE, "probe_XYZ")
         ELSE MoveX(cmd.dist, TRUE, "probe_XYZ")
    /\ out' = [out EXCEPT !.moves = Min(out.moves + 1, 3)]
    /\ pc' = IF MoveWaits(cmd.axis) THEN "probe_XYZ_wait" ELSE "probe_XYZ_disarm"
    /\ UNCHANGED <<cmd, sessionVars, configVars, pin, disable_segmentation,
                   last_probe, loc, hist>>

\* wait_for_idle of move_y / move_z returns and the helper pops the state
probe_XYZ_wait ==
    /\ pc = "probe_XYZ_wait"
    /\ ConveyorIdle
    /\ MoveHelperEnd(IF cmd.axis = "Y" THEN "move_y" ELSE "move_z")
    /\ pc' = "probe_XYZ_disarm"
    /\ UNCHANGED <<cmd, sessionVars, configVars, pin, motionVars,
                   disable_segmentation, last_probe, loc, out, hist>>

\* `probing = false`
probe_XYZ_disarm ==
    /\ pc = "probe_XYZ_disarm"
    /\ probing' = FALSE
    /\ pc' = "probe_XYZ_report"
    /\ UNCHANGED <<modeVars, cmd, probe_detected, debounce, configVars, pin, motionVars,
                   disable_segmentation, last_probe, loc, out, hist>>

\* mutant: reconciliation only after a detection, as in run_probe
ProbeXYZResets_if_detected == probe_detected

\* probe_XYZ calls reset_position_from_current_actuator_position
\* unconditionally
ProbeXYZResets == TRUE

\* the planner position after the reset_position... call of probe_XYZ
ProbeXYZPosition == IF ProbeXYZResets THEN ResetPosition ELSE machine_pos

\* `disable_segmentation = false`, reset_position_from_current_actuator_position,
\* get_axis_position, probeok, the [PRB:...] report, the last probe position
\* and the alarm
probe_XYZ_report ==
    /\ pc = "probe_XYZ_report"
    /\ disable_segmentation' = FALSE
    /\ machine_pos' = ProbeXYZPosition
    /\ LET probeok == IF probe_detected THEN 1 ELSE 0
           pos == ProbeXYZPosition
       IN  /\ last_probe' = <<pos["X"], pos["Y"], pos["Z"], probeok>>
           /\ out' = [out EXCEPT !.response = "PRB", !.probeok = probeok,
                                 !.alarm = ProbeFail(probeok, cmd.sub),
                                 !.reconciles = IF ProbeXYZResets
                                                  THEN Min(out.reconciles + 1, 3)
                                                  ELSE out.reconciles]
    /\ pc' = "done"
    /\ UNCHANGED <<modeVars, cmd, sessionVars, configVars, pin, actuator_pos, moving, block,
                   loc, hist>>

\* ---------------------------------------------------------- handle_mcode
\* mutant: M670 I sets the polarity instead of toggling it
ToggledInverting_set(inv, override) == override

\* `pin.is_inverting() != invert_override`
ToggledInverting(inv, override) == (inv # override)

\* the I and Z parameters of an M670; -1 stands for a parameter not given
M670Args == [I : {-1, 0, 1}, Z : {-1} \cup (0..MaxPos)]

\* M670 between two gcodes: Z sets max_z, I sets invert_override and the
\* polarity of the pin, which changes what pin.get() returns for the same
\* signal; S, K, R, H and D set feedrates, probe height and dwell, which the
\* model does not hold.  M119 and M500 only print.
handle_mcode ==
    /\ pc = "idle"
    /\ \E a \in M670Args :
         LET override == (a.I # 0)
             inv == IF a.I = -1 THEN inverting ELSE ToggledInverting(inverting, override)
         IN  /\ max_z' = IF a.Z = -1 THEN max_z ELSE a.Z
             /\ invert_override' = IF a.I = -1 THEN invert_override ELSE override
             /\ inverting' = inv
             /\ pin' = IF inv = inverting THEN pin ELSE ~pin
             /\ m670' = [last |-> a.I \notin {-1, 0},
                         pair |-> a.I \notin {-1, 0} /\ m670.last,
                         before1 |-> inverting,
                         before2 |-> m670.before1]
    /\ UNCHANGED <<modeVars, pc, cmd, sessionVars, debounce_ms, motionVars, disable_segmentation,
                   last_probe, loc, out, hist>>

\* ------------------------------------------------------- specifications
Sampler == read_probe
Motion == MotionStart \/ MotionStep \/ MotionDone
Handler ==
    \/ handle_gcode_entry
    \/ strategy_run_probe
    \/ strategy_doProbeAt
    \/ doProbeAt_run_probe_return
    \/ handle_gcode_G30
    \/ handle_gcode_G30_report
    \/ handle_gcode_G38
    \/ handle_gcode_return
Engine ==
    \/ run_probe_entry
    \/ run_probe_arm2
    \/ run_probe_arm3
    \/ run_probe_move
    \/ run_probe_wait
    \/ run_probe_disarm
    \/ run_probe_reset
    \/ run_probe_return_move
    \/ run_probe_return_wait
    \/ probe_XYZ_entry
    \/ probe_XYZ_arm2
    \/ probe_XYZ_move
    \/ probe_XYZ_wait
    \/ probe_XYZ_disarm
    \/ probe_XYZ_report

Next == Handler \/ Engine \/ Sampler \/ Motion \/ PinChange

Spec == Init /\ [][Next]_vars

\* The same program when the allocation of the ZProbe object happens to be
\* zero-filled: every behaviour of SpecZeroed is a behaviour of Spec.
InitZeroed == Init /\ debounce = 0 /\ probe_detected = FALSE

SpecZeroed == InitZeroed /\ [][Next]_vars

\* The program with the configuration defaults (debounce_ms = 0), a
\* zero-filled object, and the machine in absolute (G90) or relative (G91)
\* mode when the first probe command arrives.
InitAnyMode ==
    /\ InitProbe
    /\ debounce = 0 /\ probe_detected = FALSE /\ debounce_ms = 0
    /\ absolute_mode \in BOOLEAN
    /\ state_stack = <<>>

SpecAnyMode == InitAnyMode /\ [][Next]_vars

\* The settings command alone, with the sensor: no probe is run.
NextMcode == handle_mcode \/ PinChange

SpecMcode == Init /\ [][NextMcode]_vars

\* The command thread keeps running and the step ticker keeps executing
\* the queued block.
FairSpec == Spec /\ WF_vars(Handler \/ Engine) /\ WF_vars(Motion)

\* ----------------------------------------------------------- properties
TypeOK ==
    /\ probing \in BOOLEAN
    /\ probe_detected \in BOOLEAN
    /\ debounce \in 0..(MaxDebounce + 1)
    /\ pc = "idle" => cmd = NoCmd /\ out = NoOut /\ loc = NoLoc

\* debounce_count would exceed the threshold on this active sample
WouldConfirm == debounce + 1 > debounce_ms

\* a sampler tick that confirms a trigger
ConfirmingTick ==
    /\ read_probe
    /\ probing /\ ~probe_detected /\ AnyAxisMoving
    /\ pin /\ WouldConfirm

\* C1: a tick that confirms a trigger while the session is armed, not yet
\* detected and an X/Y/Z actuator moves issues a stop to every actuator of
\* the machine in that tick (none is moving afterwards), sets detected and
\* clears debounce_count; between one arming and the next detected goes
\* false->true at most once and at most one tick issues stops.
C1_StopAllOnce ==
    /\ [][ConfirmingTick =>
            /\ hist'.stopped = Actuators
            /\ \A a \in Actuators : ~moving'[a]
            /\ probe_detected'
            /\ debounce' = 0
            /\ hist'.stops = hist.stops + 1]_vars
    /\ [][(~probe_detected /\ probe_detected') => (probing /\ hist.detects = 0)]_vars
    /\ [](hist.detects <= 1 /\ hist.stops <= 1)

\* C1 witness: a probing move cut short by a confirmed trigger, every
\* actuator stop-commanded, the block still holding unexecuted steps
C1_Witness ==
    /\ probing /\ probe_detected /\ debounce = 0
    /\ hist.stopped = Actuators /\ hist.stops = 1 /\ hist.detects = 1
    /\ block.remaining # 0 /\ block.started

\* C2 (as claimed): the sampler sets detected only on the tick that is the
\* (debounce_ms + 1)-th consecutive active sample of the armed session
\* (hist.run counts the consecutive active samples taken since arming).
C2_Original ==
    [][(~probe_detected /\ probe_detected') => hist'.run = debounce_ms + 1]_vars

\* C3 (as claimed): from before the probe move of probe_XYZ is issued until
\* the motion queue is idle again the session is armed, whichever axis.
C3_Original ==
    (pc = "probe_XYZ_move" \/ block.src = "probe_XYZ") => probing

\* the step of run_probe that finds the sensor already active
PreTriggeredReturn == pc = "run_probe" /\ pin /\ pc' # pc

\* C4 (as amended): with the sensor already active run_probe returns
\* not-triggered, assigns nothing to the distance output, leaves the last
\* probe position as it was, does not arm (probing, probe_detected, debounce unchanged),
\* issues no move and no stop command.
C4_NoArmNoRecord ==
    [][PreTriggeredReturn =>
        /\ loc'.ret = FALSE
        /\ ~loc'.mm_written
        /\ last_probe' = last_probe
        /\ UNCHANGED <<probing, probe_detected, debounce>>
        /\ ~probing'
        /\ UNCHANGED <<machine_pos, actuator_pos, moving, block>>
        /\ out'.moves = out.moves /\ out'.armed = out.armed
        /\ hist' = hist]_vars

\* C4 (as claimed): ... with a recorded / returned distance of zero.
C4_Original ==
    [][PreTriggeredReturn =>
        /\ loc'.ret = FALSE
        /\ loc'.mm_written /\ loc'.mm = 0
        /\ last_probe'[3] = 0
        /\ UNCHANGED <<probing, probe_detected, debounce>>
        /\ UNCHANGED <<machine_pos, actuator_pos, moving, block>>
        /\ out'.moves = out.moves /\ out'.armed = out.armed
        /\ hist' = hist]_vars

\* C4 witness: run_probe has returned without arming while an earlier
\* probe's non-zero distance is still the recorded last probe position
C4_Witness ==
    /\ pc = "g30_report" /\ ~out.armed /\ ~loc.ret /\ out.moves = 0
    /\ ~loc.mm_written /\ last_probe[3] # 0

\* the command thread is inside run_probe or probe_XYZ
InProbeOperation ==
    pc \in {"run_probe_arm2", "run_probe_arm3", "run_probe_move", "run_probe_wait",
            "run_probe_disarm", "run_probe_reset",
            "probe_XYZ", "probe_XYZ_arm2", "probe_XYZ_move", "probe_XYZ_wait",
            "probe_XYZ_disarm", "probe_XYZ_report"}

\* the sampler has detected and stopped the actuators in this armed session
DetectedAndStopped == probing /\ probe_detected /\ hist.stops > 0

\* C5: once the sampler has set detected and issued the stops in an armed
\* session, the motion queue becomes idle and the session is then disarmed;
\* every started run_probe / probe_XYZ ends, with the session disarmed.
C5_EventuallyDisarmed ==
    /\ DetectedAndStopped ~> ConveyorIdle
    /\ DetectedAndStopped ~> ~probing
    /\ InProbeOperation ~> (~InProbeOperation /\ ~probing)

\* C5 witness: detected and stopped while run_probe still waits for idle
C5_Witness ==
    DetectedAndStopped /\ pc = "run_probe_wait" /\ ~ConveyorIdle

ReturnCompleted == pc = "g30_report" /\ loc.caller = "run_probe_return"

\* C7: when run_probe_return completes, the Z position (the planner's and
\* the actuator's) is the one saved before probing, whatever the outcome of
\* the probe, and nothing is left in the motion queue.
C7_ReturnsToStart ==
    ReturnCompleted =>
        /\ machine_pos["Z"] = loc.save_z_pos
        /\ actuator_pos["Z"] = loc.save_z_pos
        /\ ConveyorIdle

\* C7 witness: run_probe_return completed after a probe that was cut short
C7_Witness ==
    ReturnCompleted /\ loc.ret /\ loc.mm \notin {0, 2 * max_z, -(2 * max_z)}

\* C8: the return move of run_probe_return is not probe-supervised: while
\* it is issued, queued or executing the session is disarmed, no tick
\* issues a stop or changes detected, and the block leaves the queue only
\* with all its steps executed.
C8_ReturnUnsupervised ==
    /\ []((pc \in {"run_probe_return", "run_probe_return_wait"} \/ block.src = "return")
            => ~probing)
    /\ [][(pc = "run_probe_return_wait") =>
            (hist'.stops = hist.stops /\ probe_detected' = probe_detected
             /\ debounce' = debounce)]_vars
    /\ [][(block.src = "return" /\ block'.src # "return") => block.remaining = 0]_vars

\* C8 witness: the sensor reads active while Z moves on the return move
C8_Witness ==
    block.src = "return" /\ moving["Z"] /\ pin /\ pc = "run_probe_return_wait"

\* C9: when probe_XYZ has reported, the alarm is raised iff no contact was
\* confirmed and the subcode is 2, and the reported flag is 0 iff no contact
\* was confirmed.
C9_AlarmIffStrictFail ==
    (pc = "done" /\ out.response = "PRB") =>
        /\ out.alarm <=> (~probe_detected /\ cmd.sub = 2)
        /\ out.probeok = (IF probe_detected THEN 1 ELSE 0)
        /\ cmd.sub = 3 => ~out.alarm

\* C9 witness: strict variant along Z, no contact, alarm raised
C9_Witness ==
    /\ pc = "done" /\ out.response = "PRB" /\ cmd.sub = 2 /\ cmd.axis = "Z"
    /\ ~probe_detected /\ out.alarm /\ out.probeok = 0

\* a probe-family command whose handler finds the sensor active
StartsTriggered ==
    /\ pc = "idle" /\ pc' # pc /\ pin
    /\ cmd'.code \in 29..32 \/ (cmd'.code = 38 /\ cmd'.sub \in {2, 3})

\* C10: a probe-family command (G29..G32, G38.2, G38.3) that finds the
\* sensor active answers with the abort message and ends: no move, no
\* arming, no strategy, no reconciliation, no alarm, no stop.
C10_AbortNoMotion ==
    [][StartsTriggered =>
        /\ pc' = "done"
        /\ out' = [NoOut EXCEPT !.response = "abort"]
        /\ UNCHANGED <<probing, probe_detected, debounce>>
        /\ UNCHANGED <<machine_pos, actuator_pos, moving, block>>
        /\ UNCHANGED <<last_probe, disable_segmentation, hist>>]_vars

\* C10 witness: a G38 answered with the abort message
C10_Witness ==
    pc = "done" /\ out.response = "abort" /\ cmd.code = 38 /\ out.moves = 0 /\ ~out.armed

\* run_probe has armed and has returned to its caller
RunProbeReturned ==
    /\ out.armed /\ cmd.code # 38
    /\ pc \in {"g30_report", "run_probe_return", "run_probe_return_wait", "done"}

\* C11: run_probe requests reconciliation iff contact was confirmed: once
\* it has returned, the number of requests is 1 if a tick confirmed contact
\* in the session and 0 if not, and the value returned is that flag; the
\* request is made in the last step of run_probe, with the session already
\* disarmed, and at most once.
C11_ReconcileIffDetected ==
    /\ [](RunProbeReturned =>
            /\ out.reconciles = (IF hist.detects = 1 THEN 1 ELSE 0)
            /\ loc.ret = (hist.detects = 1)
            /\ loc.ret = probe_detected
            /\ ~probing)
    /\ [][(cmd.code # 38 /\ out'.reconciles > out.reconciles) =>
            /\ pc = "run_probe_reset" /\ pc' = ReturnTo
            /\ ~probing /\ probe_detected
            /\ out.reconciles = 0 /\ out'.reconciles = 1
            /\ loc'.ret]_vars

\* C11 witness: run_probe returned triggered after a move cut short, the
\* planner position reconciled with the actuator
C11_Witness ==
    /\ pc = "g30_report" /\ loc.caller = "G30" /\ loc.ret
    /\ out.reconciles = 1 /\ hist.stops = 1
    /\ machine_pos["Z"] = actuator_pos["Z"] /\ loc.mm \notin {2 * max_z, -(2 * max_z)}

Abs(n) == IF n < 0 THEN -n ELSE n

\* run_probe was called with an explicit maximum distance, has armed, has
\* finished its wait and no contact was confirmed
FullTravelExplicit ==
    /\ cmd.max_dist >= 0 /\ out.armed /\ ~probe_detected
    /\ pc \in {"run_probe_disarm", "run_probe_reset", "done"}

\* C12: a run_probe with explicit maximum distance d that ends without a
\* confirmed contact (in particular when the sensor never reads active)
\* measures a distance of magnitude d, has issued no stop, records
\* (0, 0, distance, 0) as last probe position and returns not-triggered.
C12_FullTravel ==
    FullTravelExplicit =>
        /\ loc.mm_written /\ Abs(loc.mm) = cmd.max_dist
        /\ hist.stops = 0 /\ hist.stopped = {}
        /\ last_probe = <<0, 0, loc.mm, 0>>
        /\ actuator_pos["Z"] = machine_pos["Z"]
        /\ pc = "done" => ~loc.ret /\ out.reconciles = 0

\* C12 witness: run_probe with d = MaxProbeDist returned not-triggered
\* after the full travel
C12_Witness ==
    /\ FullTravelExplicit /\ pc = "done" /\ cmd.max_dist = MaxProbeDist
    /\ loc.mm = MaxProbeDist /\ ~loc.ret /\ out.moves = 1

\* C13: when the last two M670 commands both carried a non-zero I, the
\* polarity of the pin is what it was before the first of the two, whatever
\* the polarity was and whatever M670 commands came before.
C13_ToggleTwice ==
    m670.pair => inverting = m670.before2

\* C13 witness: two M670 with non-zero I in a row, starting from the
\* inverted polarity that an earlier toggle had left
C13_Witness ==
    m670.pair /\ m670.before2 /\ ~m670.before1 /\ inverting /\ invert_override

\* a sampler tick taken while the session is not armed, or armed and detected
GuardedTick == read_probe /\ (~probing \/ probe_detected)

\* C14: a tick that runs while the session is not armed, or armed but
\* already detected, changes neither detected nor debounce_count and stops
\* no actuator, whatever the pin reads and whatever moves; detected goes
\* false->true only while armed, and true->false only in the arming
\* sequence of run_probe or probe_XYZ.
C14_GuardedTickNoEffect ==
    /\ [][GuardedTick => UNCHANGED <<probe_detected, debounce, moving, hist>>]_vars
    /\ [][(~probe_detected /\ probe_detected') => (probing /\ probing')]_vars
    /\ [][(probe_detected /\ ~probe_detected') =>
            (probing /\ pc \in {"run_probe_arm2", "probe_XYZ_arm2"})]_vars

\* C14 witness: the sensor reads active while Z moves, the session is
\* disarmed and a debounce count is left from the probe
C14_Witness ==
    ~probing /\ moving["Z"] /\ pin /\ debounce > 0 /\ ~probe_detected /\ hist.run > 0

\* none of the X, Y, Z actuators is moving
Stationary == \A a \in Axes : ~moving[a]

\* a sampler tick taken while the session is armed and the machine stationary
StationaryTick == read_probe /\ probing /\ Stationary

\* C15: a tick that runs while the session is armed but no X, Y or Z
\* actuator moves changes neither detected nor debounce_count, counts no
\* sample and stops nothing; so detected is only ever set while an axis is
\* moving.
C15_StationaryTickNoEffect ==
    /\ [][StationaryTick => UNCHANGED <<probe_detected, debounce, moving, hist>>]_vars
    /\ [][(~probe_detected /\ probe_detected') => ~Stationary]_vars
    /\ [][(probing /\ Stationary) => (hist'.run = hist.run \/ hist' = NoHist)]_vars

\* C15 witness: armed by run_probe, the sensor active, the probe move
\* queued but no stepper started yet
C15_Witness ==
    /\ probing /\ ~probe_detected /\ pin /\ Stationary
    /\ pc = "run_probe_wait" /\ ~ConveyorIdle /\ ~block.started

\* a sampler tick that reads the pin: armed, not detected, an axis moving
SamplingTick ==
    read_probe /\ probing /\ ~probe_detected /\ (moving["X"] \/ moving["Y"] \/ moving["Z"])

\* C16 (as amended): a tick that samples the pin and reads it inactive
\* leaves debounce_count at 0; debounce_count grows only by one, only on a
\* sampled active reading and never above the threshold; every other change
\* of it is a reset to 0 (inactive sample, confirming tick, arming by
\* run_probe) made by a sampling tick or by run_probe.
C16_ResetOnInactive ==
    /\ [][(SamplingTick /\ ~pin) => debounce' = 0]_vars
    /\ [][(debounce' > debounce) =>
            (SamplingTick /\ pin /\ debounce' = debounce + 1 /\ debounce' <= debounce_ms)]_vars
    /\ [][(debounce' < debounce) =>
            (debounce' = 0 /\ (SamplingTick \/ pc = "run_probe_arm3"))]_vars

\* C16 (as claimed): after a tick that samples the pin, debounce_count is 0
\* if the reading was inactive, and otherwise the number of consecutive
\* active samples (hist.run), and it does not exceed the threshold.
C16_Original ==
    [][SamplingTick =>
        /\ debounce' = (IF pin THEN hist'.run ELSE 0)
        /\ debounce' <= debounce_ms]_vars

\* C16 witness: the count stands at a non-zero threshold while the probe
\* move goes on and the sensor reads active
C16_Witness ==
    /\ probing /\ ~probe_detected /\ moving["Z"] /\ pin
    /\ debounce_ms > 0 /\ debounce = debounce_ms /\ hist.run = debounce_ms

\* C17 (as claimed): in every state a tick can observe, armed and detected
\* both true implies that stop commands were issued to all actuators in
\* the current armed period (hist is cleared by the arming write).
C17_Original ==
    (probing /\ probe_detected) => (hist.stops > 0 /\ hist.stopped = Actuators)

\* C18 (as claimed): when the arming sequence of run_probe or probe_XYZ is
\* complete and the probe move is about to be issued, debounce_count is 0.
C18_Original ==
    (probing /\ pc \in {"run_probe_move", "probe_XYZ_move"}) => debounce = 0

\* a step that reconciles the planner position or takes the snapshot that
\* is recorded as last probe position
SnapshotStep ==
    \/ pc = "run_probe_wait" /\ pc' = "run_probe_disarm"
    \/ pc = "run_probe_reset" /\ pc' # pc /\ probe_detected
    \/ pc = "probe_XYZ_report" /\ pc' = "done"

\* C19 (as claimed): reconciliation and the recorded snapshot are taken
\* only with the motion queue idle and no actuator moving, for run_probe
\* and for probe_XYZ on every axis, and the recorded flag is the flag
\* returned or reported.
C19_Original ==
    /\ [][SnapshotStep => (ConveyorIdle /\ \A a \in Actuators : ~moving[a])]_vars
    /\ []((pc = "done" /\ out.response = "PRB") => last_probe[4] = out.probeok)
    /\ []((pc = "g30_report" /\ out.armed) => last_probe[4] = (IF loc.ret THEN 1 ELSE 0))

\* the command thread is inside a move helper, after its dispatch and
\* before its pop_state
InHelper == pc \in {"probe_XYZ_wait", "run_probe_return_wait", "move_xy_wait"}

\* C20: a move helper holds exactly one saved state, the mode from before
\* the operation, between its push and its pop; outside the helpers nothing
\* is saved and the mode is the one from before the operation, also after
\* a move cut short by a probe stop.
C20_ModeRestored ==
    /\ InHelper => state_stack = <<loc.mode0>>
    /\ (pc # "idle" /\ ~InHelper) => (absolute_mode = loc.mode0 /\ state_stack = <<>>)
    /\ pc = "idle" => state_stack = <<>>

\* C20 witness: a relative probe move along Z was cut short by the probe
\* and the absolute mode of before is back
C20_Witness ==
    /\ pc = "done" /\ cmd.code = 38 /\ cmd.axis = "Z" /\ out.probeok = 1
    /\ hist.stops = 1 /\ loc.mode0 /\ absolute_mode /\ state_stack = <<>>

====
